---- MODULE Spec2Model ----
(***************************************************************************)
(* Model of AjaxForm (ajax-form.js): the submission pipeline               *)
(*   submit -> #handleBefore -> #handleValidation -> #handleRequest        *)
(*          -> #handleResponse -> #handleAfter, .catch(#handleError)       *)
(* with its cancellation handle, the shared UI controls and the form       *)
(* inputs that #handleValidation reads and mutates.                        *)
(*                                                                         *)
(* Every promise the code waits on (plugins.ready(), a middleware chain,   *)
(* delay(), the transport) is a suspension point: the submission has a     *)
(* program counter that rests there, and one action per continuation runs  *)
(* the callback that the settlement triggers.                              *)
(***************************************************************************)
EXTENDS Naturals, Integers, Sequences, FiniteSets, TLC

VARIABLES
  fields,      \* the form inputs: value, disabled flag, custom validity message
  controls,    \* this.#controls: whether messageError elements exist
  ui,          \* state of the elements of this.#controls (TRUE = toggled, FALSE = idle)
  ctrl,        \* this.#abortController: 0 = undefined, h = the AbortController h
  aborted,     \* the AbortControllers whose abort() has been called
  noopAbort,   \* an abort command arrived while this.#abortController was undefined
  pc,          \* per submission: the suspension point it rests at
  opts,        \* per submission: the options object of submit() (opts.abort)
  req,         \* per submission: the request body the stage closures hold
  resp,        \* per submission: the response the stage closures hold
  err,         \* per submission: the rejection reason travelling to / through #handleError
  validation,  \* per submission: the Set built by #handleValidation
  mwNames,     \* per submission: the names the validation chain returned (line 317)
  started,     \* per submission: #handleProgress has signalled upload-start
  trace,       \* per submission: the side effects performed, in order
  passed,      \* per submission: calls, the <<receiver, handle>> of every chain and
               \* transport call; late, whether one was made while another
               \* controller was held
  settled,     \* per submission: the value the promise of submit() settled with
  hist,        \* per submission: the body submit() assembled, the response the
               \* transport resolved with, and what the before, request and
               \* response chains returned
  inputs,      \* the inputs #generateDataAndProps reads, in document order
  withData,    \* this.#with: the side-channel data sets
  body,        \* the last call of #generateDataAndProps: its argument, the
               \* side-channel data it read and the object it returned
  root,        \* the attributes of the root element that #getParameters reads
  params,      \* the last resolution of the Request stage's parameters
  tree,        \* a nested structure handed to deepFilterArrays
  cleaned      \* the results of the successive passes of deepFilterArrays over tree

\* the state of the submission pipeline
pipeline == <<fields, controls, ui, ctrl, aborted, noopAbort, pc, opts, req, resp,
              err, validation, mwNames, started, trace, passed, settled, hist>>

\* the state the pure helpers of the form work on
helpers == <<inputs, withData, body, root, params, tree, cleaned>>

vars == <<pipeline, helpers>>

----------------------------------------------------------------------------
(* Bounds *)

MaxSubmits == 2

Subs == 1..MaxSubmits

----------------------------------------------------------------------------
(* Values *)

ERROR_VALIDATION == "ERROR_VALIDATION"

ERROR_CONFIRM == "ERROR_CONFIRM"

\* A JavaScript value that travels as response, error or hook result.  Absent
\* properties are the empty string; copy tells an object built by a spread
\* from the object it was built from.
MkVal(kind, code, status, message) ==
  [kind |-> kind, code |-> code, status |-> status, message |-> message, copy |-> FALSE]

Undefined == MkVal("undefined", "", "", "")

ValidationError == MkVal("error", "", "", ERROR_VALIDATION)

ConfirmError == MkVal("error", "", "", ERROR_CONFIRM)

\* a fault thrown by a hook, and a transport failure
HookFault == MkVal("error", "", "", "boom")

TransportFailure == MkVal("error", "", "503", "")

\* transport results and response-middleware overrides
R200 == MkVal("response", "200", "", "")

R500 == MkVal("response", "500", "", "")

O200 == MkVal("override", "200", "", "")

O500 == MkVal("override", "500", "", "")

\* a response the server answers with when the user declined, its message being
\* the text the switch of #handleError compares with
RDeclined == MkVal("response", "409", "", ERROR_CONFIRM)

\* the result of an error middleware
ErrResult == MkVal("errorResult", "", "", "handled")

hasValue(v) == v.kind # "undefined"

NoReq == [src |-> "none", keys |-> {}]

NoCalls == [calls |-> {}, late |-> FALSE]

NoHist == [assembled |-> NoReq, before |-> NoReq, request |-> NoReq,
           raw |-> Undefined, response |-> Undefined]

NotSettled == MkVal("pending", "", "", "")

\* the data object #handleAfter resolves with
Data == MkVal("data", "", "", "")

----------------------------------------------------------------------------
(* The form under test: three named inputs in document order.  a and b carry
   the validation-group attribute "g" and are required; c is a required input
   outside any group. *)

Fields == {"a", "b", "c"}

Order == <<"a", "b", "c">>

Group == [f \in Fields |-> IF f \in {"a", "b"} THEN "g" ELSE ""]

Required == [f \in Fields |-> TRUE]

Values == {"", "x"}

Idx(f) == CHOOSE k \in 1..Len(Order) : Order[k] = f

isNotBlank(s) == s # ""

MkField(v) == [value |-> v, disabled |-> FALSE, custom |-> ""]

\* el.validity.valid of an enabled input: no valueMissing, no customError
Valid(fs, f) == ~(Required[f] /\ fs[f].value = "") /\ fs[f].custom = ""

\* #queryFormInput(): the enabled, named inputs
queryFormInput(fs) == {f \in Fields : ~fs[f].disabled /\ isNotBlank(f)}

\* #queryFormInput(`[validation][required]`)
queryGrouped(fs) == {f \in queryFormInput(fs) : Group[f] # "" /\ Required[f]}

First(S) == CHOOSE f \in S : \A h \in S : Idx(f) <= Idx(h)

\* lines 295-301: the reduce clears the custom validity of every grouped input
ClearCustom(fs) ==
  [f \in Fields |-> IF f \in queryGrouped(fs) THEN [fs[f] EXCEPT !.custom = ""] ELSE fs[f]]

GroupInputs(fs, g) == {f \in queryGrouped(fs) : Group[f] = g}

GroupSatisfied(fs, g) == \E f \in GroupInputs(fs, g) : isNotBlank(fs[f].value)

\* ResolveGroups without line 305: blank members of a satisfied group stay enabled
ResolveGroups_NoExemption(fs) ==
  [f \in Fields |->
     IF f \notin queryGrouped(fs) THEN fs[f]
     ELSE IF GroupSatisfied(fs, Group[f]) THEN fs[f]
       ELSE (IF f = First(GroupInputs(fs, Group[f]))
               THEN [fs[f] EXCEPT !.custom = Group[f]] ELSE fs[f])]

\* lines 303-309: exempt the blank members of a satisfied group, flag the first
\* member of an all-blank group
ResolveGroups(fs) ==
  [f \in Fields |->
     IF f \notin queryGrouped(fs) THEN fs[f]
     ELSE IF GroupSatisfied(fs, Group[f])
       THEN (IF ~isNotBlank(fs[f].value) THEN [fs[f] EXCEPT !.disabled = TRUE] ELSE fs[f])
       ELSE (IF f = First(GroupInputs(fs, Group[f]))
               THEN [fs[f] EXCEPT !.custom = Group[f]] ELSE fs[f])]

\* NativeInvalid collecting only the inputs that carry a custom validity message
NativeInvalid_CustomOnly(fs) == {f \in queryFormInput(fs) : fs[f].custom # ""}

\* lines 311-314: the names of the inputs #queryFormInput() returns that are not valid
NativeInvalid(fs) == {f \in queryFormInput(fs) : ~Valid(fs, f)}

\* line 313: el.disabled = false, applied to the inputs #queryFormInput() returns
Reenable(fs) ==
  [f \in Fields |-> IF f \in queryFormInput(fs) THEN [fs[f] EXCEPT !.disabled = FALSE] ELSE fs[f]]

----------------------------------------------------------------------------
(* UI controls *)

ControlKeys == {"enable", "disable", "show", "hide", "progress",
                "messageValidation", "messageSuccess", "messageError"}

\* #resetUIControls: every control back to its idle state
IdleUI == [k \in ControlKeys |-> FALSE]

\* lines 344-347
ToggleUI(u) == [k \in ControlKeys |-> IF k \in {"enable", "disable", "show", "hide"} THEN TRUE ELSE u[k]]

Show(u, key) == [u EXCEPT ![key] = TRUE]

----------------------------------------------------------------------------
(* Error decoration *)

\* AjaxForm.config.i18n: a message for code 500, none for any status
I18nCode(c) == IF c = "500" THEN "Server error" ELSE ""

I18nStatus(s) == ""

\* DEFAULT_CONFIG.response.getError
getError(e) ==
  IF I18nCode(e.code) # "" THEN I18nCode(e.code)
  ELSE IF I18nStatus(e.status) # "" THEN I18nStatus(e.status)
  ELSE IF e.message # "" THEN e.message
  ELSE IF e.code # "" THEN e.code
  ELSE IF e.status # "" THEN e.status
  ELSE "[object]"

\* Decorate passing the caught reason on as it is
Decorate_None(e) == e

\* line 404: error = { ...error, message: getError(error) }
Decorate(e) == [e EXCEPT !.message = getError(e), !.copy = TRUE]

\* DEFAULT_CONFIG.response.checkResponse
checkResponse(r) == r.code = "200"

\* Refusal rejecting with the transport's response instead of the chain's result
Refusal_Original(result, original) == original

\* line 370: Promise.reject(result), result being the response after the
\* override of line 369 and original the transport's response
Refusal(result, original) == result

\* line 321 with the test dropped: the pipeline goes on whatever the set holds
Invalid_Never(all) == FALSE

\* line 321: validation.size > 0
Invalid(all) == all # {}

\* ErrorCase without the case of line 397
ErrorCase_NoValidationCase(e) ==
  IF e.message = ERROR_CONFIRM THEN "confirm" ELSE "other"

\* ErrorCase with line 399 falling into the return of line 398
ErrorCase_ConfirmReturns(e) ==
  IF e.message \in {ERROR_VALIDATION, ERROR_CONFIRM} THEN "validation" ELSE "other"

\* lines 396-401: switch (error?.message)
ErrorCase(e) ==
  IF e.message = ERROR_VALIDATION THEN "validation"
  ELSE IF e.message = ERROR_CONFIRM THEN "confirm"
  ELSE "other"

----------------------------------------------------------------------------
(* Trace helpers *)

Emit(i, evs) == trace' = [trace EXCEPT ![i] = @ \o evs]

\* HandleOf reading the controller the form holds at the time of the call
HandleOf_Held(i) == ctrl

\* #getMiddleware hands opts.abort to the chain it creates; submitHandler.run
\* receives opts
HandleOf(i) == opts[i].abort

Pass(i, receiver) ==
  passed' = [passed EXCEPT ![i] = [calls |-> @.calls \cup {<<receiver, HandleOf(i)>>},
                                   late |-> @.late \/ ctrl # opts[i].abort]]

\* Fail recording the reason and going on with the After stage
Fail_GoesOn(i, e) ==
  /\ pc' = [pc EXCEPT ![i] = "after"]
  /\ err' = [err EXCEPT ![i] = e]

\* a rejection in the chain of submit() reaches its catch, line 204
Fail(i, e) ==
  /\ pc' = [pc EXCEPT ![i] = "catch"]
  /\ err' = [err EXCEPT ![i] = e]


----------------------------------------------------------------------------
(* How a promise the pipeline waits on settles: fulfilled (ok) with what the
   chain or the transport returned, or rejected with e.  ov: the chain returned
   a { request } override; names: the non-blank names of a validation chain's
   result; r: the transport's response, a { response } override, or the result
   of the error chain. *)

Resolves == [ok |-> TRUE, ov |-> FALSE, names |-> {}, r |-> Undefined, e |-> Undefined]

Overrides == [Resolves EXCEPT !.ov = TRUE]

Appends(ns) == [Resolves EXCEPT !.names = ns]

Returns(v) == [Resolves EXCEPT !.r = v]

Rejects(e) == [Resolves EXCEPT !.ok = FALSE, !.e = e]

\* the { request } a before or request chain returned: the body it supplies, or
\* nothing
BeforeBody == [src |-> "before", keys |-> {}]

RequestBody == [src |-> "request", keys |-> {}]

Returned(o, b) == IF o.ov THEN b ELSE NoReq

\* Override substituting what the chain returned whether or not it holds a value
Override_Always(present, result, original) == result

\* lines 282, 351, 369: hasValue(result?.x) ? result.x : x
Override(present, result, original) == IF present THEN result ELSE original

----------------------------------------------------------------------------
(* JavaScript values of a request body.  Every value is a node of one shape:
   kind tells what it is, s holds a scalar, items the entries of an array (a
   hole is an undefined entry), keys and vals the entries of an object in
   insertion order. *)

Node(kind, s, items, keys, vals) ==
  [kind |-> kind, s |-> s, items |-> items, keys |-> keys, vals |-> vals]

Absent == Node("undefined", "", <<>>, <<>>, <<>>)

Str(s) == Node("string", s, <<>>, <<>>, <<>>)

Bool(b) == Node("boolean", IF b THEN "true" ELSE "false", <<>>, <<>>, <<>>)

\* new Date(value).getTime()
Instant(s) == Node("number", s, <<>>, <<>>, <<>>)

\* a File, Blob or Date
FileOf(s) == Node("file", s, <<>>, <<>>, <<>>)

Arr(items) == Node("array", "", items, <<>>, <<>>)

Obj(keys, vals) == Node("object", "", <<>>, keys, vals)

EmptyObj == Obj(<<>>, <<>>)

isArray(n) == n.kind = "array"

isObject(n) == n.kind = "object"

Has(o, k) == \E j \in DOMAIN o.keys : o.keys[j] = k

\* o[k]
Get(o, k) == IF Has(o, k) THEN o.vals[CHOOSE j \in DOMAIN o.keys : o.keys[j] = k] ELSE Absent

\* o[k] = v: an existing key keeps its place, a new key is added last
Put(o, k, v) ==
  IF Has(o, k)
    THEN [o EXCEPT !.vals = [j \in DOMAIN o.vals |-> IF o.keys[j] = k THEN v ELSE o.vals[j]]]
    ELSE [o EXCEPT !.keys = Append(o.keys, k), !.vals = Append(o.vals, v)]

RECURSIVE deepFilterArrays_EmptiesFirst(_)
\* deepFilterArrays dropping, with the absent entries, the entries that are
\* empty arrays before it descends into the entries
deepFilterArrays_EmptiesFirst(obj) ==
  IF obj.kind = "file" THEN obj
  ELSE IF isArray(obj)
    THEN LET present(n) == hasValue(n) /\ n # Arr(<<>>)
             kept == SelectSeq(obj.items, present)
         IN Arr([j \in DOMAIN kept |-> deepFilterArrays_EmptiesFirst(kept[j])])
  ELSE IF isObject(obj)
    THEN Obj(obj.keys, [j \in DOMAIN obj.vals |-> deepFilterArrays_EmptiesFirst(obj.vals[j])])
  ELSE obj

RECURSIVE deepFilterArrays(_)
\* lines 652-664
deepFilterArrays(obj) ==
  IF obj.kind = "file" THEN obj
  ELSE IF isArray(obj)
    THEN LET kept == SelectSeq(obj.items, hasValue)
         IN Arr([j \in DOMAIN kept |-> deepFilterArrays(kept[j])])
  ELSE IF isObject(obj)
    THEN Obj(obj.keys, [j \in DOMAIN obj.vals |-> deepFilterArrays(obj.vals[j])])
  ELSE obj

----------------------------------------------------------------------------
(* Payload assembly: #generateDataAndProps, #getElementValue, setNestedValue.
   An input is a record of the element properties the code reads; list holds
   the selected option values of a select or the selected files.  No input
   declares a source (from), so the extracted value is passed on as it is. *)

MkInput(name, type, value, checked, list) ==
  [name |-> name, type |-> type, value |-> value, checked |-> checked, list |-> list,
   to |-> "data", multiple |-> FALSE, disabled |-> FALSE]

\* endsWith(el.name, '[]') and the match of /[^.[\]]+/g, for the names in use
ListNames == {"tags[]"}

Stem(name) == IF name = "tags[]" THEN "tags" ELSE name

Path(name) ==
  CASE name \in {"tags", "tags[]"} -> <<"tags">>
    [] name = "user.langs" -> <<"user", "langs">>
    [] name = "list[1]" -> <<"list", "1">>
    [] OTHER -> <<name>>

Digits == <<"0", "1", "2">>

isInteger(k) == \E j \in DOMAIN Digits : Digits[j] = k

\* the position in items of the entry with index k
Index(k) == CHOOSE j \in DOMAIN Digits : Digits[j] = k

\* getElementValue reading a checkbox as a plain input: its value, checked or not
getElementValue_ValueOnly(el) ==
  CASE el.type = "date" -> IF isNotBlank(el.value) THEN Instant(el.value) ELSE Absent
    [] el.type = "file" ->
         IF el.multiple THEN Arr([j \in DOMAIN el.list |-> FileOf(el.list[j])])
         ELSE IF el.list = <<>> THEN Absent ELSE FileOf(el.list[1])
    [] el.type = "select-multiple" -> Arr([j \in DOMAIN el.list |-> Str(el.list[j])])
    [] el.type = "radio" -> IF el.checked THEN Str(el.value) ELSE Absent
    [] OTHER -> Str(el.value)

\* lines 592-622, for an element
getElementValue(el) ==
  CASE el.type = "date" -> IF isNotBlank(el.value) THEN Instant(el.value) ELSE Absent
    [] el.type = "file" ->
         IF el.multiple THEN Arr([j \in DOMAIN el.list |-> FileOf(el.list[j])])
         ELSE IF el.list = <<>> THEN Absent ELSE FileOf(el.list[1])
    [] el.type = "select-multiple" -> Arr([j \in DOMAIN el.list |-> Str(el.list[j])])
    [] el.type = "checkbox" ->
         IF el.value # "on" /\ el.value # ""
           THEN (IF el.checked THEN Str(el.value) ELSE Absent)
           ELSE Bool(el.checked)
    [] el.type = "radio" -> IF el.checked THEN Str(el.value) ELSE Absent
    [] OTHER -> Str(el.value)

\* an entry of groups[toType]: an element, an array of elements, or a value
\* merged from a side channel
El(el) == [kind |-> "el", els |-> <<el>>, val |-> Absent]

Els(els) == [kind |-> "els", els |-> els, val |-> Absent]

Val(v) == [kind |-> "val", els |-> <<>>, val |-> v]

NoGroups == [keys |-> <<>>, vals |-> <<>>]

At(o, k) == o.vals[CHOOSE j \in DOMAIN o.keys : o.keys[j] = k]

Bucket(groups, toType) == IF Has(groups, toType) THEN At(groups, toType) ELSE NoGroups

RECURSIVE GroupFields(_, _)
\* lines 550-562: groups after the first n inputs
GroupFields(els, n) ==
  IF n = 0 THEN NoGroups
  ELSE LET groups == GroupFields(els, n - 1)
           el == els[n]
           name == Stem(el.name)
           target == Bucket(groups, el.to)
           entry == IF Has(target, name) \/ el.name \in ListNames
                      THEN Els(Append(IF Has(target, name) THEN At(target, name).els
                                      ELSE <<>>, el))
                      ELSE El(el)
       IN IF el.disabled \/ ~isNotBlank(el.name) THEN groups
          ELSE Put(groups, el.to, Put(target, name, entry))

\* lines 89-94: the constant WITH
WithSets == <<[name |-> "append", required |-> FALSE],
              [name |-> "page", required |-> FALSE],
              [name |-> "querystring", required |-> FALSE],
              [name |-> "apply", required |-> TRUE]>>

\* this.#with[name]; a data set that was never stored has no entries
Side(side, name) == IF name \in DOMAIN side THEN side[name] ELSE EmptyObj

\* Selected merging a data set only when the call names it
Selected_NamedOnly(w, withParams) == w.name \in withParams

\* line 565: required || withParams.includes(name)
Selected(w, withParams) == w.required \/ w.name \in withParams

RECURSIVE MergeValues(_, _, _)
\* lines 567-570: the first n entries of values written into target
MergeValues(target, values, n) ==
  IF n = 0 THEN target
  ELSE Put(MergeValues(target, values, n - 1), values.keys[n], Val(values.vals[n]))

RECURSIVE MergeBuckets(_, _, _)
\* lines 566-571: the first n buckets of a data set merged into groups
MergeBuckets(groups, data, n) ==
  IF n = 0 THEN groups
  ELSE LET g == MergeBuckets(groups, data, n - 1)
           toType == data.keys[n]
           values == data.vals[n]
       IN Put(g, toType, MergeValues(Bucket(g, toType), values, Len(values.keys)))

RECURSIVE MergeWith(_, _, _, _)
\* lines 564-573: the first n data sets of the constant WITH
MergeWith(groups, side, withParams, n) ==
  IF n = 0 THEN groups
  ELSE LET g == MergeWith(groups, side, withParams, n - 1)
           data == Side(side, WithSets[n].name)
       IN IF Selected(WithSets[n], withParams)
            THEN MergeBuckets(g, data, Len(data.keys)) ELSE g

RECURSIVE Flat(_)
\* flatMap: the entries of the sequence, the entries of an array spliced in
Flat(nodes) ==
  IF nodes = <<>> THEN <<>>
  ELSE (IF isArray(Head(nodes)) THEN Head(nodes).items ELSE <<Head(nodes)>>)
       \o Flat(Tail(nodes))

\* lines 579-585: the value of an entry of a group
ValueOf(entry) ==
  CASE entry.kind = "els" ->
         LET value == SelectSeq(Flat([j \in DOMAIN entry.els |-> getElementValue(entry.els[j])]),
                                hasValue)
         IN IF entry.els[1].type = "radio"
              THEN (IF value = <<>> THEN Absent ELSE value[1])
              ELSE Arr(value)
    [] entry.kind = "el" -> getElementValue(entry.els[1])
    [] OTHER ->
         IF isArray(entry.val) THEN Arr(SelectSeq(Flat(entry.val.items), hasValue))
         ELSE entry.val

\* acc[key]
Load(acc, key) ==
  IF isArray(acc)
    THEN (IF isInteger(key) /\ Index(key) <= Len(acc.items) THEN acc.items[Index(key)]
          ELSE Absent)
    ELSE Get(acc, key)

\* acc[key] = v; an array grows by holes up to the index
Store(acc, key, v) ==
  IF isArray(acc)
    THEN (IF isInteger(key)
            THEN Arr([j \in 1..(IF Index(key) > Len(acc.items) THEN Index(key)
                                ELSE Len(acc.items)) |->
                        IF j = Index(key) THEN v
                        ELSE IF j <= Len(acc.items) THEN acc.items[j] ELSE Absent])
            ELSE acc)
    ELSE Put(acc, key, v)

RECURSIVE SetPath(_, _, _)
\* lines 642-649: the reduce over the keys but the last, then the assignment
SetPath(acc, keys, value) ==
  IF Len(keys) = 1 THEN Store(acc, keys[1], value)
  ELSE LET cur == Load(acc, keys[1])
           next == IF cur.kind \in {"array", "object", "file"} THEN cur
                   ELSE IF isInteger(keys[2]) THEN Arr(<<>>) ELSE EmptyObj
       IN Store(acc, keys[1], SetPath(next, Tail(keys), value))

\* setNestedValue assigning an absent value like any other
setNestedValue_Always(obj, name, value) ==
  IF ~isObject(obj) THEN obj ELSE SetPath(obj, Path(name), value)

\* lines 637-650
setNestedValue(obj, name, value) ==
  IF ~hasValue(value) \/ ~isObject(obj) THEN obj ELSE SetPath(obj, Path(name), value)

RECURSIVE FillBucket(_, _, _)
\* lines 577-587: the first n entries of a group written into result[type]
FillBucket(acc, group, n) ==
  IF n = 0 THEN acc
  ELSE setNestedValue(FillBucket(acc, group, n - 1), group.keys[n], ValueOf(group.vals[n]))

RECURSIVE BuildResult(_, _)
\* lines 575-588: result after the first n groups
BuildResult(groups, n) ==
  IF n = 0 THEN EmptyObj
  ELSE Put(BuildResult(groups, n - 1), groups.keys[n],
           FillBucket(EmptyObj, groups.vals[n], Len(groups.vals[n].keys)))

\* lines 546-590
generateDataAndProps(els, side, withParams) ==
  LET groups == MergeWith(GroupFields(els, Len(els)), side, withParams, Len(WithSets))
  IN deepFilterArrays(BuildResult(groups, Len(groups.keys)))

----------------------------------------------------------------------------
(* Parameters of the Request stage: #getParameters and its calls in
   #handleRequest.  The four keys are single words, so the camel-case and the
   kebab-case key are the same key.  An attribute of the root is a string, ""
   when the attribute is missing or blank. *)

ParamKeys == {"type", "method", "action", "enctype"}

\* the prefixed data attributes and the plain attributes of the root
Roots == [data : [ParamKeys -> {"", "d"}], attr : [ParamKeys -> {"", "a"}]]

\* the options of a call: its own keys, the keys of opts.property, and opts.url
CallOpts ==
  [own : [ParamKeys -> {Absent, Str("o")}],
   property : [ParamKeys -> {Absent, Str("p")}],
   url : {Absent, Str("u")}]

NoOpts == [own |-> [k \in ParamKeys |-> Absent], property |-> [k \in ParamKeys |-> Absent],
           url |-> Absent]

\* a ?? b
Coalesce(a, b) == IF hasValue(a) THEN a ELSE b

\* toArray of a scalar
toArray(v) == IF hasValue(v) THEN <<v>> ELSE <<>>

\* array[0]
Item0(array) == IF array = <<>> THEN Absent ELSE array[1]

\* getParameters reading the attributes of the root before the options
getParameters_AttributesFirst(key, o, defaultValue) ==
  IF isNotBlank(root.data[key]) THEN toArray(Str(root.data[key]))
  ELSE IF isNotBlank(root.attr[key]) THEN toArray(Str(root.attr[key]))
  ELSE IF hasValue(Coalesce(o.own[key], o.property[key]))
    THEN toArray(Coalesce(o.own[key], o.property[key]))
  ELSE toArray(defaultValue)

\* lines 483-504
getParameters(key, o, defaultValue) ==
  IF hasValue(Coalesce(o.own[key], o.property[key]))
    THEN toArray(Coalesce(o.own[key], o.property[key]))
  ELSE IF isNotBlank(root.data[key]) THEN toArray(Str(root.data[key]))
  ELSE IF isNotBlank(root.attr[key]) THEN toArray(Str(root.attr[key]))
  ELSE toArray(defaultValue)

\* lines 332-342: type and the method, url and enctype of requestParams
RequestParams(o) ==
  [called |-> TRUE, opts |-> o,
   type |-> LET type == Item0(getParameters("type", o, Absent))
            IN IF hasValue(type) /\ type.s # "" THEN type ELSE Str("ajax"),
   method |-> Item0(getParameters("method", o, Absent)),
   url |-> Item0(getParameters("action", o, o.url)),
   enctype |-> Item0(getParameters("enctype", o, Absent))]

----------------------------------------------------------------------------
(* State after construction.  fieldInits are the states the page's inputs may
   be in when the form is constructed; the controller is undefined until the
   first submit(). *)

InitForm(fieldInits, controlInits) ==
  /\ fields \in fieldInits
  /\ controls \in controlInits
  /\ ui = IdleUI
  /\ ctrl = 0
  /\ aborted = {}
  /\ noopAbort = FALSE
  /\ pc = [i \in Subs |-> "new"]
  /\ opts = [i \in Subs |-> [abort |-> 0]]
  /\ req = [i \in Subs |-> NoReq]
  /\ resp = [i \in Subs |-> Undefined]
  /\ err = [i \in Subs |-> Undefined]
  /\ validation = [i \in Subs |-> {}]
  /\ mwNames = [i \in Subs |-> {}]
  /\ started = [i \in Subs |-> FALSE]
  /\ trace = [i \in Subs |-> <<>>]
  /\ passed = [i \in Subs |-> NoCalls]
  /\ settled = [i \in Subs |-> NotSettled]
  /\ hist = [i \in Subs |-> NoHist]

NoWith == [querystring |-> EmptyObj, page |-> EmptyObj, apply |-> EmptyObj]

NoBody == [called |-> FALSE, with |-> {}, side |-> NoWith, out |-> Absent]

NoRoot == [data |-> [k \in ParamKeys |-> ""], attr |-> [k \in ParamKeys |-> ""]]

NoParams == [called |-> FALSE, opts |-> NoOpts, type |-> Absent, method |-> Absent,
             url |-> Absent, enctype |-> Absent]

\* the pure helpers at rest: no assembly, no parameter resolution, no cleaning
HelpersIdle ==
  /\ inputs = <<>>
  /\ withData = NoWith
  /\ body = NoBody
  /\ root = NoRoot
  /\ params = NoParams
  /\ tree = Absent
  /\ cleaned = <<>>

InitWith(fieldInits, controlInits) == InitForm(fieldInits, controlInits) /\ HelpersIdle

shared == <<fields, controls, ui, ctrl, aborted, noopAbort>>

----------------------------------------------------------------------------
(* submit(), lines 193-199: assemble the body from the enabled inputs, allocate
   a fresh AbortController, hold it, and call #handleBefore, which calls
   plugins.ready().  Submissions are numbered in the order they are made, and
   submission i allocates controller i. *)

\* Submit cancelling the controller it replaces before holding the new one
Submit_CancelsPrevious(i) ==
  /\ pc[i] = "new"
  /\ \A j \in Subs : j < i => pc[j] # "new"
  /\ req' = [req EXCEPT ![i] = [src |-> "assembled", keys |-> queryFormInput(fields)]]
  /\ hist' = [hist EXCEPT ![i].assembled =
                                [src |-> "assembled", keys |-> queryFormInput(fields)]]
  /\ ctrl' = i
  /\ aborted' = aborted \cup ({ctrl} \ {0})
  /\ opts' = [opts EXCEPT ![i] = [abort |-> i]]
  /\ pc' = [pc EXCEPT ![i] = "ready"]
  /\ Emit(i, <<"before.ready">>)
  /\ UNCHANGED <<fields, controls, ui, noopAbort, resp, err, validation, mwNames,
                 started, passed, settled>>
  /\ UNCHANGED helpers

\* submit(), lines 193-199
Submit(i) ==
  /\ pc[i] = "new"
  /\ \A j \in Subs : j < i => pc[j] # "new"
  /\ req' = [req EXCEPT ![i] = [src |-> "assembled", keys |-> queryFormInput(fields)]]
  /\ hist' = [hist EXCEPT ![i].assembled =
                                [src |-> "assembled", keys |-> queryFormInput(fields)]]
  /\ ctrl' = i
  /\ opts' = [opts EXCEPT ![i] = [abort |-> i]]
  /\ pc' = [pc EXCEPT ![i] = "ready"]
  /\ Emit(i, <<"before.ready">>)
  /\ UNCHANGED <<fields, controls, ui, aborted, noopAbort, resp, err, validation, mwNames,
                 started, passed, settled>>
  /\ UNCHANGED helpers

\* line 280-281: plugins.ready() settled; on success the before chain is called
PluginsReady(i, o) ==
  /\ pc[i] = "ready"
  /\ IF o.ok
       THEN /\ pc' = [pc EXCEPT ![i] = "beforeMw"]
            /\ Pass(i, "before")
            /\ Emit(i, <<"before.mw">>)
            /\ UNCHANGED err
       ELSE /\ Fail(i, o.e)
            /\ UNCHANGED <<passed, trace>>
  /\ UNCHANGED <<hist, shared, opts, req, resp, validation, mwNames, started, settled>>
  /\ UNCHANGED helpers

\* lines 282-289: the before chain settled; o.ov tells whether it returned a request
BeforeSettle(i, o) ==
  /\ pc[i] = "beforeMw"
  /\ IF o.ok
       THEN /\ req' = [req EXCEPT ![i] = Override(o.ov, Returned(o, BeforeBody), @)]
            /\ hist' = [hist EXCEPT ![i].before = Returned(o, BeforeBody)]
            /\ Emit(i, <<"before.broadcast", "before.reset", "before.notify">>)
            /\ ui' = IdleUI
            /\ pc' = [pc EXCEPT ![i] = "validation"]
            /\ UNCHANGED err
       ELSE /\ Fail(i, o.e)
            /\ UNCHANGED <<req, trace, ui, hist>>
  /\ UNCHANGED <<fields, controls, ctrl, aborted, noopAbort, opts, resp, validation, mwNames,
                 started, passed, settled>>
  /\ UNCHANGED helpers

\* lines 292-316: group resolution, the native pass, and the call of the
\* validation chain
ValidationStart(i) ==
  /\ pc[i] = "validation"
  /\ LET resolved == ResolveGroups(ClearCustom(fields))
     IN /\ validation' = [validation EXCEPT ![i] = NativeInvalid(resolved)]
        /\ fields' = Reenable(resolved)
  /\ Pass(i, "validation")
  /\ Emit(i, <<"validation.native", "validation.mw">>)
  /\ pc' = [pc EXCEPT ![i] = "validationMw"]
  /\ UNCHANGED <<hist, controls, ui, ctrl, aborted, noopAbort, opts, req, resp, err,
                 mwNames, started, settled>>
  /\ UNCHANGED helpers

\* lines 317-328: the validation chain settled; o.names are the non-blank
\* names of its result
ValidationSettle(i, o) ==
  /\ pc[i] = "validationMw"
  /\ IF o.ok
       THEN LET all == validation[i] \cup o.names
            IN /\ mwNames' = [mwNames EXCEPT ![i] = o.names]
               /\ validation' = [validation EXCEPT ![i] = all]
               /\ IF Invalid(all)
                    THEN /\ Emit(i, <<"validation.merge", "validation.report",
                                      "validation.invalid", "validation.show">>)
                         /\ ui' = Show(ui, "messageValidation")
                         /\ Fail(i, ValidationError)
                    ELSE /\ Emit(i, <<"validation.merge">>)
                         /\ pc' = [pc EXCEPT ![i] = "request"]
                         /\ UNCHANGED <<ui, err>>
       ELSE /\ Fail(i, o.e)
            /\ UNCHANGED <<validation, mwNames, trace, ui>>
  /\ UNCHANGED <<hist, fields, controls, ctrl, aborted, noopAbort, opts, req, resp,
                 started, passed, settled>>
  /\ UNCHANGED helpers

\* RequestStart called without awaiting the promise of #handleValidation
RequestStart_NoAwait(i) ==
  /\ pc[i] \in {"validationMw", "request"}
  /\ ui' = ToggleUI(ui)
  /\ Emit(i, <<"request.toggle", "request.delay">>)
  /\ pc' = [pc EXCEPT ![i] = "delay"]
  /\ UNCHANGED <<hist, fields, controls, ctrl, aborted, noopAbort, opts, req, resp, err,
                 validation, mwNames, started, passed, settled>>
  /\ UNCHANGED helpers

\* RequestStart starting the delay and leaving the UI controls as they are
RequestStart_NoToggle(i) ==
  /\ pc[i] = "request"
  /\ Emit(i, <<"request.delay">>)
  /\ pc' = [pc EXCEPT ![i] = "delay"]
  /\ UNCHANGED <<hist, fields, controls, ui, ctrl, aborted, noopAbort, opts, req, resp, err,
                 validation, mwNames, started, passed, settled>>
  /\ UNCHANGED helpers

\* lines 331-349: the parameters are resolved, the UI controls are toggled and
\* the delay is started
RequestStart(i) ==
  /\ pc[i] = "request"
  /\ ui' = ToggleUI(ui)
  /\ Emit(i, <<"request.toggle", "request.delay">>)
  /\ pc' = [pc EXCEPT ![i] = "delay"]
  /\ UNCHANGED <<hist, fields, controls, ctrl, aborted, noopAbort, opts, req, resp, err,
                 validation, mwNames, started, passed, settled>>
  /\ UNCHANGED helpers

\* line 350: the delay elapsed; the request chain is called
DelaySettle(i) ==
  /\ pc[i] = "delay"
  /\ Pass(i, "request")
  /\ Emit(i, <<"request.mw">>)
  /\ pc' = [pc EXCEPT ![i] = "requestMw"]
  /\ UNCHANGED <<hist, shared, opts, req, resp, err, validation, mwNames, started, settled>>
  /\ UNCHANGED helpers

\* lines 351-357: the request chain settled; the request is broadcast and handed
\* to the transport together with opts
RequestMwSettle(i, o) ==
  /\ pc[i] = "requestMw"
  /\ IF o.ok
       THEN /\ req' = [req EXCEPT ![i] = Override(o.ov, Returned(o, RequestBody), @)]
            /\ hist' = [hist EXCEPT ![i].request = Returned(o, RequestBody)]
            /\ Emit(i, <<"request.broadcast", "request.notify", "request.dispatch">>)
            /\ Pass(i, "transport")
            /\ pc' = [pc EXCEPT ![i] = "transport"]
            /\ UNCHANGED err
       ELSE /\ Fail(i, o.e)
            /\ UNCHANGED <<req, trace, passed, hist>>
  /\ UNCHANGED <<shared, opts, resp, validation, mwNames, started, settled>>
  /\ UNCHANGED helpers

\* lines 423-430: the transport reports progress; upload-start is signalled only
\* when the length is computable
handleProgress(i, lengthComputable) ==
  /\ pc[i] = "transport"
  /\ started' = [started EXCEPT ![i] = @ \/ lengthComputable]
  /\ UNCHANGED <<hist, shared, pc, opts, req, resp, err, validation, mwNames, trace, passed, settled>>
  /\ UNCHANGED helpers

\* line 357: the transport settled
TransportSettle(i, o) ==
  /\ pc[i] = "transport"
  /\ IF o.ok
       THEN /\ resp' = [resp EXCEPT ![i] = o.r]
            /\ hist' = [hist EXCEPT ![i].raw = o.r]
            /\ pc' = [pc EXCEPT ![i] = "response"]
            /\ UNCHANGED err
       ELSE /\ Fail(i, o.e)
            /\ UNCHANGED <<resp, hist>>
  /\ UNCHANGED <<shared, opts, req, validation, mwNames, started, trace, passed, settled>>
  /\ UNCHANGED helpers

\* lines 361-368: the response chain is called
ResponseStart(i) ==
  /\ pc[i] = "response"
  /\ Pass(i, "response")
  /\ Emit(i, <<"response.mw">>)
  /\ pc' = [pc EXCEPT ![i] = "responseMw"]
  /\ UNCHANGED <<hist, shared, opts, req, resp, err, validation, mwNames, started, settled>>
  /\ UNCHANGED helpers

\* lines 369-382: the response chain settled with override o.r (Undefined: none);
\* a response that checkResponse refuses is the rejection reason as it is
ResponseMwSettle(i, o) ==
  /\ pc[i] = "responseMw"
  /\ IF o.ok
       THEN LET result == Override(hasValue(o.r), o.r, resp[i])
            IN /\ resp' = [resp EXCEPT ![i] = result]
               /\ hist' = [hist EXCEPT ![i].response = o.r]
               /\ IF checkResponse(result)
                    THEN /\ Emit(i, <<"response.broadcast", "response.uploadStop",
                                      "response.reset", "response.notify">>)
                         /\ ui' = IdleUI
                         /\ pc' = [pc EXCEPT ![i] = "after"]
                         /\ UNCHANGED err
                    ELSE /\ Emit(i, <<"response.refused">>)
                         /\ Fail(i, Refusal(result, resp[i]))
                         /\ UNCHANGED ui
       ELSE /\ Fail(i, o.e)
            /\ UNCHANGED <<resp, trace, ui, hist>>
  /\ UNCHANGED <<fields, controls, ctrl, aborted, noopAbort, opts, req, validation, mwNames,
                 started, passed, settled>>
  /\ UNCHANGED helpers

\* line 386: the after chain is called
AfterStart(i) ==
  /\ pc[i] = "after"
  /\ Pass(i, "after")
  /\ Emit(i, <<"after.mw">>)
  /\ pc' = [pc EXCEPT ![i] = "afterMw"]
  /\ UNCHANGED <<hist, shared, opts, req, resp, err, validation, mwNames, started, settled>>
  /\ UNCHANGED helpers

\* lines 386-391: the after chain settled; the promise of submit() resolves
\* with the data
AfterSettle(i, o) ==
  /\ pc[i] = "afterMw"
  /\ IF o.ok
       THEN /\ Emit(i, <<"after.broadcast", "after.show", "after.notify">>)
            /\ ui' = Show(ui, "messageSuccess")
            /\ settled' = [settled EXCEPT ![i] = Data]
            /\ pc' = [pc EXCEPT ![i] = "resolved"]
            /\ UNCHANGED err
       ELSE /\ Fail(i, o.e)
            /\ UNCHANGED <<trace, ui, settled>>
  /\ UNCHANGED <<hist, fields, controls, ctrl, aborted, noopAbort, opts, req, resp,
                 validation, mwNames, started, passed>>
  /\ UNCHANGED helpers

\* handleError never returning for the validation sentinel
handleError_ValidationPends(i) ==
  /\ pc[i] = "catch"
  /\ ErrorCase(err[i]) # "validation"
  /\ IF ErrorCase(err[i]) = "confirm"
       THEN /\ Emit(i, <<"error.log", "error.reset">>)
            /\ ui' = IdleUI
            /\ settled' = [settled EXCEPT ![i] = Undefined]
            /\ pc' = [pc EXCEPT ![i] = "resolved"]
            /\ UNCHANGED passed
       ELSE /\ Emit(i, <<"error.log", "error.decorate", "error.broadcast",
                         "error.uploadStop", "error.reset", "error.mw">>)
            /\ ui' = IdleUI
            /\ Pass(i, "error")
            /\ pc' = [pc EXCEPT ![i] = "errorMw"]
            /\ UNCHANGED settled
  /\ UNCHANGED <<hist, err, fields, controls, ctrl, aborted, noopAbort, opts, req, resp,
                 validation, mwNames, started>>
  /\ UNCHANGED helpers

\* lines 394-409: the catch of submit(); err[i] is the reason caught, and the
\* error the code goes on with after line 404 is Decorate(err[i])
handleError(i) ==
  /\ pc[i] = "catch"
  /\ IF ErrorCase(err[i]) = "validation"
       THEN /\ Emit(i, <<"error.log">>)
            /\ settled' = [settled EXCEPT ![i] = Undefined]
            /\ pc' = [pc EXCEPT ![i] = "resolved"]
            /\ UNCHANGED <<ui, passed>>
       ELSE IF ErrorCase(err[i]) = "confirm"
       THEN /\ Emit(i, <<"error.log", "error.reset">>)
            /\ ui' = IdleUI
            /\ settled' = [settled EXCEPT ![i] = Undefined]
            /\ pc' = [pc EXCEPT ![i] = "resolved"]
            /\ UNCHANGED passed
       ELSE /\ Emit(i, <<"error.log", "error.decorate", "error.broadcast",
                         "error.uploadStop", "error.reset", "error.mw">>)
            /\ ui' = IdleUI
            /\ Pass(i, "error")
            /\ pc' = [pc EXCEPT ![i] = "errorMw"]
            /\ UNCHANGED settled
  /\ UNCHANGED <<hist, err, fields, controls, ctrl, aborted, noopAbort, opts, req, resp,
                 validation, mwNames, started>>
  /\ UNCHANGED helpers

\* line 410: result ?? error
Kept(r) == IF hasValue(r) THEN "error.override" ELSE "error.keep"

\* lines 410-420: the error chain settled with result o.r (Undefined: none); the
\* result is rendered or forwarded, then thrown
ErrorMwSettle(i, o) ==
  /\ pc[i] = "errorMw"
  /\ IF o.ok
       THEN LET result == IF hasValue(o.r) THEN o.r ELSE Decorate(err[i])
            IN /\ IF controls.messageError
                    THEN /\ Emit(i, <<Kept(o.r), "error.render">>)
                         /\ ui' = Show(ui, "messageError")
                    ELSE /\ Emit(i, <<Kept(o.r), "error.global">>)
                         /\ UNCHANGED ui
               /\ settled' = [settled EXCEPT ![i] = result]
       ELSE /\ settled' = [settled EXCEPT ![i] = o.e]
            /\ UNCHANGED <<trace, ui>>
  /\ pc' = [pc EXCEPT ![i] = "rejected"]
  /\ UNCHANGED <<hist, fields, controls, ctrl, aborted, noopAbort, opts, req, resp, err,
                 validation, mwNames, started, passed>>
  /\ UNCHANGED helpers

\* Abort rejecting, with the controller it cancels, the submission that holds it
Abort_Preempts ==
  /\ IF ctrl = 0
       THEN /\ noopAbort' = TRUE
            /\ UNCHANGED <<aborted, pc, err>>
       ELSE /\ aborted' = aborted \cup {ctrl}
            /\ pc' = [i \in Subs |-> IF opts[i].abort = ctrl /\ pc[i] \notin {"resolved", "rejected"}
                                        THEN "catch" ELSE pc[i]]
            /\ err' = [i \in Subs |-> IF opts[i].abort = ctrl /\ pc[i] \notin {"resolved", "rejected"}
                                         THEN TransportFailure ELSE err[i]]
            /\ UNCHANGED noopAbort
  /\ UNCHANGED <<hist, fields, controls, ui, ctrl, opts, req, resp, validation, mwNames,
                 started, trace, passed, settled>>
  /\ UNCHANGED helpers

\* lines 185-187: the abort event and the abort button call
\* this.#abortController?.abort()
Abort ==
  /\ IF ctrl = 0
       THEN /\ noopAbort' = TRUE
            /\ UNCHANGED aborted
       ELSE /\ aborted' = aborted \cup {ctrl}
            /\ UNCHANGED noopAbort
  /\ UNCHANGED <<hist, fields, controls, ui, ctrl, pc, opts, req, resp, err, validation, mwNames,
                 started, trace, passed, settled>>
  /\ UNCHANGED helpers

\* the user types into an enabled input
UserEdit(f, v) ==
  /\ ~fields[f].disabled
  /\ fields[f].value # v
  /\ fields' = [fields EXCEPT ![f].value = v]
  /\ UNCHANGED <<hist, controls, ui, ctrl, aborted, noopAbort, pc, opts, req, resp, err,
                 validation, mwNames, started, trace, passed, settled>>
  /\ UNCHANGED helpers


\* the closures of a settled submission are released with its context
Release(i) ==
  /\ pc[i] \in {"resolved", "rejected"}
  /\ pc' = [pc EXCEPT ![i] = "released"]
  /\ opts' = [opts EXCEPT ![i] = [abort |-> 0]]
  /\ req' = [req EXCEPT ![i] = NoReq]
  /\ resp' = [resp EXCEPT ![i] = Undefined]
  /\ err' = [err EXCEPT ![i] = Undefined]
  /\ validation' = [validation EXCEPT ![i] = {}]
  /\ mwNames' = [mwNames EXCEPT ![i] = {}]
  /\ started' = [started EXCEPT ![i] = FALSE]
  /\ trace' = [trace EXCEPT ![i] = <<>>]
  /\ passed' = [passed EXCEPT ![i] = NoCalls]
  /\ settled' = [settled EXCEPT ![i] = NotSettled]
  /\ hist' = [hist EXCEPT ![i] = NoHist]
  /\ UNCHANGED shared
  /\ UNCHANGED helpers

----------------------------------------------------------------------------
(* The environment: how the promises the pipeline waits on settle.  An
   environment E names the outcomes drawn for each of them. *)

Continue(i, E) ==
  \/ \E o \in E.ready : PluginsReady(i, o)
  \/ \E o \in E.before : BeforeSettle(i, o)
  \/ ValidationStart(i)
  \/ \E o \in E.validation : ValidationSettle(i, o)
  \/ RequestStart(i)
  \/ DelaySettle(i)
  \/ \E o \in E.request : RequestMwSettle(i, o)
  \/ \E o \in E.transport : TransportSettle(i, o)
  \/ ResponseStart(i)
  \/ \E o \in E.response : ResponseMwSettle(i, o)
  \/ AfterStart(i)
  \/ \E o \in E.after : AfterSettle(i, o)
  \/ handleError(i)
  \/ \E o \in E.error : ErrorMwSettle(i, o)

InFlight(i) == pc[i] \notin {"new", "resolved", "rejected", "released"}

Idle == \A j \in Subs : pc[j] \in {"new", "released"}

\* Overlapping submissions and abort commands.  The chains resolve without
\* override; the transport answers 200 or fails (as it does when it observes
\* the cancellation).
ConcEnv ==
  [ready |-> {Resolves}, before |-> {Resolves}, validation |-> {Resolves},
   request |-> {Resolves}, transport |-> {Returns(R200), Rejects(TransportFailure)},
   response |-> {Resolves}, after |-> {Resolves}, error |-> {Resolves}]

ValidFields == {[f \in Fields |-> MkField("x")]}

Init == InitWith(ValidFields, {[messageError |-> TRUE]})

Next ==
  \/ \E i \in Subs : Submit(i)
  \/ \E i \in Subs : Continue(i, ConcEnv)
  \/ Abort

Spec == Init /\ [][Next]_vars

\* One submission at a time and abort commands at any moment; a continuation
\* whose promise has settled is run (the job queue of the host is fair).
NextCancel ==
  \/ \E i \in Subs : Idle /\ Submit(i)
  \/ \E i \in Subs : Continue(i, ConcEnv)
  \/ Abort
  \/ \E i \in Subs : Release(i)

SpecCancel ==
  Init /\ [][NextCancel]_vars /\ \A i \in Subs : WF_vars(Continue(i, ConcEnv))

\* Overlapping submissions whose waits all settle: plugins.ready(), the delay,
\* every chain and the transport settle one way or the other, and the
\* continuation of a settled promise is run.  submit() is called while at most
\* one earlier submission is in flight.
SettleEnv ==
  [ready |-> {Resolves}, before |-> {Resolves},
   validation |-> {Resolves, Rejects(ValidationError)},
   request |-> {Resolves, Rejects(ConfirmError)},
   transport |-> {Returns(R200), Rejects(TransportFailure)},
   response |-> {Resolves}, after |-> {Resolves},
   error |-> {Resolves, Rejects(HookFault)}]

AtMostOneInFlight == \A j, k \in Subs : (InFlight(j) /\ InFlight(k)) => j = k

NextSettle ==
  \/ \E i \in Subs : AtMostOneInFlight /\ Submit(i)
  \/ \E i \in Subs : Continue(i, SettleEnv)

SpecSettle ==
  Init /\ [][NextSettle]_vars /\ \A i \in Subs : WF_vars(Continue(i, SettleEnv))

\* One submission at a time, every outcome of every promise: each chain may
\* fail with either sentinel or a fault, return an override, append names.
Faults == {Rejects(ValidationError), Rejects(ConfirmError), Rejects(HookFault)}

PipeEnv ==
  [ready |-> {Resolves, Rejects(HookFault)},
   before |-> {Resolves, Overrides} \cup Faults,
   validation |-> {Resolves, Appends({"c"})} \cup Faults,
   request |-> {Resolves, Overrides} \cup Faults,
   transport |-> {Returns(R200), Returns(R500), Returns(RDeclined),
                  Rejects(TransportFailure)},
   response |-> {Resolves, Returns(O200), Returns(O500)} \cup Faults,
   after |-> {Resolves} \cup Faults,
   error |-> {Resolves, Returns(ErrResult), Rejects(HookFault)}]

PipeFields == {[f \in Fields |-> MkField("x")],
               [f \in Fields |-> MkField(IF f = "c" THEN "" ELSE "x")]}

InitPipe == InitWith(PipeFields, [messageError : BOOLEAN])

NextPipe ==
  \/ \E i \in Subs : Idle /\ Submit(i)
  \/ \E i \in Subs : Continue(i, PipeEnv)
  \/ \E i \in Subs, lc \in BOOLEAN : handleProgress(i, lc)
  \/ \E i \in Subs : Release(i)

SpecPipe == InitPipe /\ [][NextPipe]_vars

\* Validation: every initial filling of the inputs, user edits between
\* submissions, one submission at a time.
ValidEnv ==
  [ready |-> {Resolves}, before |-> {Resolves},
   validation |-> {Resolves, Appends({"c"}), Appends({"b"})},
   request |-> {Resolves}, transport |-> {Returns(R200), Rejects(TransportFailure)},
   response |-> {Resolves}, after |-> {Resolves}, error |-> {Resolves}]

AllFields == {[f \in Fields |-> MkField(v[f])] : v \in [Fields -> Values]}

InitValid == InitWith(AllFields, {[messageError |-> TRUE]})

NextValid ==
  \/ \E i \in Subs : Idle /\ Submit(i)
  \/ \E i \in Subs : Continue(i, ValidEnv)
  \/ \E i \in Subs : Release(i)
  \/ \E f \in Fields, v \in Values : Idle /\ UserEdit(f, v)

SpecValid == InitValid /\ [][NextValid]_vars

----------------------------------------------------------------------------
(* Payload assembly.  The form holds one input of every kind; the states of
   the checkboxes agree and tags[] and of the select user.langs vary, the
   others are fixed.  q is the input the applied attribute names. *)

InputStates ==
  {<<MkInput("q", "text", "x", FALSE, <<>>),
     MkInput("agree", "checkbox", d, c, <<>>),
     MkInput("tags[]", "checkbox", "t", t, <<>>),
     MkInput("user.langs", "select-multiple", "", FALSE, l),
     MkInput("when", "date", "2024-01-01", FALSE, <<>>),
     MkInput("since", "date", "", FALSE, <<>>),
     MkInput("choice", "radio", "x", TRUE, <<>>),
     MkInput("choice", "radio", "y", FALSE, <<>>),
     MkInput("pick", "radio", "a", FALSE, <<>>),
     MkInput("list[1]", "text", "x", FALSE, <<>>),
     [MkInput("size", "text", "big", FALSE, <<>>) EXCEPT !.to = "meta"],
     [MkInput("off", "text", "x", FALSE, <<>>) EXCEPT !.disabled = TRUE],
     MkInput("doc", "file", "", FALSE, <<>>)>> :
       d \in {"on", "yes", ""}, c \in BOOLEAN, t \in BOOLEAN,
       l \in {<<>>, <<"en">>}}

\* getQuerystring(): the parameters of the page's address
QueryStrings == {EmptyObj, Obj(<<"q", "ref">>, <<Str("qs"), Str("r")>>)}

\* the values an apply event may carry for q
AppliedValues == {Str("s"), Absent, Arr(<<Absent, Str("s")>>), Obj(<<"p">>, <<Absent>>)}

WithChoices == SUBSET {"page", "querystring"}

\* the data sets an event may name (event.detail.with)
EventWith == {{}, {"querystring"}}

\* data[toType][key] = v
StoreSide(data, toType, key, v) ==
  Put(data, toType, Put(IF Has(data, toType) THEN At(data, toType) ELSE EmptyObj, key, v))

\* lines 431-455 for a payload that names q: the value is stored under the
\* bucket and the name of every enabled input the selector matches
Applied(side, v) ==
  IF \E j \in DOMAIN inputs : inputs[j].name = "q" /\ ~inputs[j].disabled
    THEN LET el == inputs[CHOOSE j \in DOMAIN inputs : inputs[j].name = "q"]
         IN [side EXCEPT !.apply = StoreSide(@, el.to, el.name, v)]
    ELSE side

\* line 194: the call of #generateDataAndProps by submit()
Assembled(side, withParams) ==
  [called |-> TRUE, with |-> withParams, side |-> side,
   out |-> generateDataAndProps(inputs, side, withParams)]

\* lines 431-455
handleEventApplied(v) ==
  /\ withData' = Applied(withData, v)
  /\ UNCHANGED <<pipeline, inputs, body, root, params, tree, cleaned>>

\* lines 457-460: the applied values are stored, then the form is submitted
handleEventTriggered(v, withParams) ==
  /\ withData' = Applied(withData, v)
  /\ body' = Assembled(withData', withParams)
  /\ UNCHANGED <<pipeline, inputs, root, params, tree, cleaned>>

\* lines 462-474: the page is stored, then the form is submitted with page
\* and the data sets the event names
handleEventPageUpdate(withParams) ==
  /\ withData' = [withData EXCEPT !.page =
                    Obj(<<"data">>, <<Obj(<<"page", "size">>, <<Str("2"), Str("10")>>)>>)]
  /\ body' = Assembled(withData', {"page"} \cup withParams)
  /\ UNCHANGED <<pipeline, inputs, root, params, tree, cleaned>>

\* submit(opts), line 194, opts.with being withParams
Assemble(withParams) ==
  /\ body' = Assembled(withData, withParams)
  /\ UNCHANGED <<pipeline, inputs, withData, root, params, tree, cleaned>>

InitBody ==
  /\ InitForm(ValidFields, {[messageError |-> TRUE]})
  /\ inputs \in InputStates
  /\ withData \in {[NoWith EXCEPT !.querystring = Obj(<<"data">>, <<qs>>)] : qs \in QueryStrings}
  /\ body = NoBody
  /\ root = NoRoot /\ params = NoParams
  /\ tree = Absent /\ cleaned = <<>>

NextBody ==
  \/ \E v \in AppliedValues : handleEventApplied(v)
  \/ \E v \in AppliedValues, w \in EventWith : handleEventTriggered(v, w)
  \/ \E w \in EventWith : handleEventPageUpdate(w)
  \/ \E w \in WithChoices : Assemble(w)

SpecBody == InitBody /\ [][NextBody]_vars

----------------------------------------------------------------------------
(* Parameter resolution as a function of the root's attributes and of the
   options of the call: one Request stage resolves its parameters. *)

\* lines 332-342
ResolveParameters(o) ==
  /\ ~params.called
  /\ params' = RequestParams(o)
  /\ UNCHANGED <<pipeline, inputs, withData, body, root, tree, cleaned>>

InitParams ==
  /\ InitForm(ValidFields, {[messageError |-> TRUE]})
  /\ root \in Roots
  /\ params = NoParams
  /\ inputs = <<>> /\ withData = NoWith /\ body = NoBody
  /\ tree = Absent /\ cleaned = <<>>

NextParams == \E o \in CallOpts : ResolveParameters(o)

SpecParams == InitParams /\ [][NextParams]_vars

----------------------------------------------------------------------------
(* deepFilterArrays as a function: every nested structure of the universe
   below is cleaned, and the result cleaned again. *)

MaxLen == 2

MaxPasses == 2

Leaves == {Absent, Str("x"), FileOf("f")}

SeqsUpTo(S, n) == UNION {[1..k -> S] : k \in 0..n}

Arrays(S) == {Arr(items) : items \in SeqsUpTo(S, MaxLen)}

Objects(S) ==
  {EmptyObj} \cup {Obj(<<"p">>, <<v>>) : v \in S}
             \cup {Obj(<<"p", "q">>, <<v, w>>) : v \in S, w \in Leaves}

Shallow == Leaves \cup Arrays(Leaves) \cup Objects(Leaves)

Trees == Shallow \cup Arrays(Shallow) \cup Objects(Shallow)

\* one call of deepFilterArrays, on the structure or on the result of the last call
CleanPass ==
  /\ Len(cleaned) < MaxPasses
  /\ cleaned' = Append(cleaned, deepFilterArrays(IF cleaned = <<>> THEN tree
                                                 ELSE cleaned[Len(cleaned)]))
  /\ UNCHANGED <<pipeline, inputs, withData, body, root, params, tree>>

InitClean ==
  /\ InitForm(ValidFields, {[messageError |-> TRUE]})
  /\ inputs = <<>> /\ withData = NoWith /\ body = NoBody
  /\ root = NoRoot /\ params = NoParams
  /\ tree \in Trees
  /\ cleaned = <<>>

NextClean == CleanPass

SpecClean == InitClean /\ [][NextClean]_vars

----------------------------------------------------------------------------
(* Properties *)

\* the side effects submission i has performed
Ev(i) == {trace[i][k] : k \in DOMAIN trace[i]}

\* the side effects of each stage when it completes, and everything a stage may do
BeforeEffects == {"before.ready", "before.mw", "before.broadcast", "before.reset",
                  "before.notify"}

ValidationEffects == {"validation.native", "validation.mw", "validation.merge"}

RequestEffects == {"request.toggle", "request.delay", "request.mw", "request.broadcast",
                   "request.notify", "request.dispatch"}

ResponseEffects == {"response.mw", "response.broadcast", "response.uploadStop",
                    "response.reset", "response.notify"}

AfterEffects == {"after.mw", "after.broadcast", "after.show", "after.notify"}

Effects(n) ==
  CASE n = 1 -> BeforeEffects
    [] n = 2 -> ValidationEffects
    [] n = 3 -> RequestEffects
    [] n = 4 -> ResponseEffects
    [] n = 5 -> AfterEffects
    [] OTHER -> {}

StageOf(ev) ==
  IF ev \in BeforeEffects THEN 1
  ELSE IF ev \in ValidationEffects \cup {"validation.report", "validation.invalid",
                                        "validation.show"} THEN 2
  ELSE IF ev \in RequestEffects THEN 3
  ELSE IF ev \in ResponseEffects \cup {"response.refused"} THEN 4
  ELSE IF ev \in AfterEffects THEN 5
  ELSE 6

\* C1: within one submission the stages run in the order Before, Validation,
\* Request, Response, After: when a stage performs any of its side effects (its
\* hook call, broadcasts, UI toggles, notifications) every side effect of the
\* stage before it has already been applied, and no effect of an earlier stage
\* follows it.
C1_StageOrder ==
  \A i \in Subs : \A q \in DOMAIN trace[i] :
    LET n == StageOf(trace[i][q])
    IN /\ \A p \in 1..(q - 1) : StageOf(trace[i][p]) <= n
       /\ n \in 2..5 =>
            \A e \in Effects(n - 1) : \E p \in 1..(q - 1) : trace[i][p] = e

C1_Witness ==
  \E i \in Subs : pc[i] = "resolved" /\ settled[i] = Data /\ "after.notify" \in Ev(i)

\* C2: when the invalid set (native names plus the names the validation chain
\* appended) is non-empty at the end of the Validation stage, the invalid event
\* is broadcast and the request chain, the transport dispatch, the Response
\* stage and the After stage are never executed for that submission.
C2_InvalidStops ==
  \A i \in Subs :
    ("validation.merge" \in Ev(i) /\ validation[i] # {}) =>
      /\ "validation.invalid" \in Ev(i)
      /\ Ev(i) \cap ({"request.mw", "request.dispatch", "response.refused"}
                     \cup ResponseEffects \cup AfterEffects) = {}

C2_Witness ==
  \E i \in Subs :
    /\ pc[i] = "resolved"
    /\ validation[i] # {}
    /\ "validation.invalid" \in Ev(i)

ErrorOnlySteps == {"error.decorate", "error.broadcast", "error.uploadStop", "error.mw"}

Caught(i) == pc[i] \in {"catch", "errorMw", "resolved", "rejected"} /\ hasValue(err[i])

\* C3: a failure carrying the validation sentinel is absorbed by the Error
\* stage: the promise of submit() resolves and never rejects, and the Error
\* stage performs neither the message decoration, nor the after broadcast
\* carrying the error, nor the upload-stop signal, nor the error chain.
C3_ValidationAbsorbed ==
  \A i \in Subs :
    (Caught(i) /\ err[i].message = ERROR_VALIDATION) =>
      /\ pc[i] \in {"catch", "resolved"}
      /\ pc[i] = "resolved" => settled[i] = Undefined
      /\ Ev(i) \cap ErrorOnlySteps = {}

C3_Witness ==
  \E i \in Subs : pc[i] = "resolved" /\ err[i] = ValidationError /\ "error.log" \in Ev(i)

ErrorSteps == <<"error.decorate", "error.broadcast", "error.uploadStop", "error.reset",
                "error.mw">>

\* C4: a failure that carries neither sentinel, raised in any of the five
\* stages, goes in this order through message decoration, the after broadcast
\* carrying the error, the upload-stop signal, the UI reset and the error
\* chain; the promise of submit() then rejects with the decorated error (the
\* reason's own properties, message replaced by getError of the reason, in a
\* new object), or with the result of the error chain when it returns one.
C4_FailureSurfaces ==
  \A i \in Subs :
    (Caught(i) /\ err[i].message \notin {ERROR_VALIDATION, ERROR_CONFIRM}) =>
      /\ pc[i] # "resolved"
      /\ pc[i] \in {"errorMw", "rejected"} =>
           \E k \in DOMAIN trace[i] :
             /\ k + 4 <= Len(trace[i])
             /\ SubSeq(trace[i], k, k + 4) = ErrorSteps
      /\ (pc[i] = "rejected" /\ "error.keep" \in Ev(i)) =>
           settled[i] = [err[i] EXCEPT !.message = getError(err[i]), !.copy = TRUE]
      /\ (pc[i] = "rejected" /\ "error.override" \in Ev(i)) =>
           /\ hasValue(settled[i])
           /\ settled[i] \in {o.r : o \in PipeEnv.error}

C4_Witness ==
  \E i \in Subs :
    /\ pc[i] = "rejected"
    /\ err[i] = TransportFailure
    /\ "error.keep" \in Ev(i)
    /\ settled[i].message = "503"

\* C5 as claimed: when checkResponse refuses the response, the promise of
\* submit() rejects with the raw response itself, not with a decorated copy
\* (stated where the error chain returns nothing, so that nothing but the
\* pipeline decides the value).
C5_RejectsWithRaw ==
  \A i \in Subs :
    ("response.refused" \in Ev(i) /\ pc[i] = "rejected" /\ "error.keep" \in Ev(i)) =>
      settled[i] = resp[i]

\* C5 amended: when checkResponse refuses the (possibly overridden) response,
\* the Response stage rejects with that raw response itself, not with the
\* canonical data, and the Error stage handles it as any other failure: a
\* response whose message is a sentinel is absorbed, and otherwise the promise
\* of submit() rejects with a decorated copy of the response (its properties,
\* message set by getError, a new object), or with the result of the error
\* chain when it returns one; it never rejects with the raw response.
C5_StageRejectsRaw ==
  \A i \in Subs :
    "response.refused" \in Ev(i) =>
      /\ err[i] = resp[i]
      /\ ~checkResponse(err[i])
      /\ err[i] # Data /\ ~err[i].copy
      /\ pc[i] = "resolved" <=>
           (err[i].message \in {ERROR_VALIDATION, ERROR_CONFIRM} /\ "error.log" \in Ev(i))
      /\ (pc[i] = "rejected" /\ "error.keep" \in Ev(i)) =>
           /\ settled[i] = [resp[i] EXCEPT !.message = getError(resp[i]), !.copy = TRUE]
           /\ settled[i] # resp[i]
      /\ (pc[i] = "rejected" /\ "error.override" \in Ev(i)) =>
           (hasValue(settled[i]) /\ settled[i] \in {o.r : o \in PipeEnv.error})

C5_Witness ==
  \E i \in Subs :
    /\ pc[i] = "rejected"
    /\ "response.refused" \in Ev(i)
    /\ "error.keep" \in Ev(i)
    /\ resp[i] = O500
    /\ settled[i].message = "Server error"

\* C6: a failure carrying the confirmation sentinel, raised in any stage, makes
\* the Error stage reset the UI controls to idle and the promise of submit()
\* resolve with nothing; no after event is broadcast, the error chain does not
\* run and nothing is rendered into the error-message control.
C6_ConfirmResets ==
  \A i \in Subs :
    (Caught(i) /\ err[i].message = ERROR_CONFIRM) =>
      /\ pc[i] \in {"catch", "resolved"}
      /\ pc[i] = "resolved" =>
           /\ settled[i] = Undefined
           /\ "error.reset" \in Ev(i)
           /\ ui = IdleUI
      /\ Ev(i) \cap {"after.broadcast", "error.broadcast", "error.mw", "error.render",
                     "error.global"} = {}

C6_Witness ==
  \E i \in Subs :
    /\ pc[i] = "resolved"
    /\ err[i] = ConfirmError
    /\ "request.toggle" \in Ev(i)
    /\ ui = IdleUI

\* C7: submit() allocates a controller never allocated before and holds it,
\* without cancelling any controller; an abort command cancels the controller
\* held at that time and no other, and cancels nothing while none is held.
C7_AbortOnlyHeld ==
  [][ /\ ctrl' # ctrl =>
           /\ aborted' = aborted
           /\ ctrl' \notin aborted
           /\ ctrl' \notin {opts[j].abort : j \in Subs}
           /\ \E i \in Subs : pc[i] = "new" /\ pc'[i] # "new" /\ opts'[i].abort = ctrl'
      /\ aborted' # aborted =>
           /\ ctrl' = ctrl /\ ctrl # 0
           /\ aborted' = aborted \cup {ctrl}
      /\ noopAbort' # noopAbort => (ctrl = 0 /\ aborted' = aborted)
    ]_vars

C7_Witness ==
  /\ noopAbort
  /\ InFlight(1) /\ InFlight(2)
  /\ ctrl = 2
  /\ aborted = {2}

Receivers(i) == {c[1] : c \in passed[i].calls}

\* C8: every chain (before, validation, request, response, after, error) and the
\* transport call of submission i receive the controller that submission i
\* allocated, also when a later submit() has replaced the controller the form
\* holds.
C8_SameHandle ==
  \A i \in Subs : \A c \in passed[i].calls : c[2] = i

C8_Witness ==
  /\ passed[1].late
  /\ ctrl = 2
  /\ Receivers(1) = {"before", "validation", "request", "transport", "response", "after"}

GroupNames == {Group[f] : f \in Fields} \ {""}

Members(g) == {f \in Fields : Group[f] = g}

Blank(f) == ~isNotBlank(fields[f].value)

\* C9: for a validation group whose members are all required, when at least
\* one member is non-blank no blank member of the group is reported by
\* validation: none is in the set after the native pass, and one is in the
\* final set only if the validation chain itself returned its name.  For
\* {a, b} with a non-blank, b blank and c valid the native pass returns {}.
C9_SatisfiedGroup ==
  \A i \in Subs : \A g \in GroupNames :
    ("validation.native" \in Ev(i) /\ \E f \in Members(g) : ~Blank(f)) =>
      /\ \A f \in Members(g) :
           Blank(f) =>
             /\ pc[i] = "validationMw" => f \notin validation[i]
             /\ f \in validation[i] => f \in mwNames[i]
      /\ (pc[i] = "validationMw" /\ ~Blank("a") /\ Blank("b") /\ ~Blank("c")) =>
           validation[i] = {}

C9_Witness ==
  \E i \in Subs :
    /\ pc[i] = "validationMw"
    /\ ~Blank("a") /\ Blank("b") /\ ~Blank("c")
    /\ validation[i] = {}

\* C10 as claimed: when all members of a group are blank, exactly its first
\* member is reported.
C10_OnlyRepresentative ==
  \A i \in Subs : \A g \in GroupNames :
    (pc[i] = "validationMw" /\ \A f \in Members(g) : Blank(f)) =>
      validation[i] \cap Members(g) = {First(Members(g))}

\* C10 amended: when all members of a group are blank, the first enabled
\* member carries the group's message and is reported, and so is every other
\* enabled member, each being required and empty; a member that is disabled is
\* not reported.
C10_AllEnabledReported ==
  \A i \in Subs : \A g \in GroupNames :
    (pc[i] = "validationMw" /\ \A f \in Members(g) : Blank(f)) =>
      LET en == {f \in Members(g) : ~fields[f].disabled}
      IN /\ validation[i] \cap Members(g) = en
         /\ \A f \in en : fields[f].custom = (IF f = First(en) THEN g ELSE "")

C10_Witness ==
  \E i \in Subs :
    /\ pc[i] = "validationMw"
    /\ Blank("a") /\ Blank("b")
    /\ validation[i] \cap Members("g") = {"a", "b"}

\* C11: the exemption of the blank members of a satisfied group is reverted
\* when the Validation stage finishes, whether it passes or fails: every input
\* that was enabled when the submission was made (the inputs its body was
\* assembled from) is enabled again once the stage has merged its result.
C11_ExemptionReverted ==
  \A i \in Subs :
    ("validation.merge" \in Ev(i) /\ req[i].src = "assembled") =>
      req[i].keys \subseteq queryFormInput(fields)

\* C12: the body handed to the transport is what the request chain returned
\* when it returned a request, otherwise what the before chain returned when it
\* returned one, otherwise the assembled body; the response checkResponse tests
\* is what the response chain returned when it returned a response, otherwise
\* the transport's response.  A chain that returns nothing changes neither.
C12_OverrideOrPass ==
  \A i \in Subs :
    /\ "before.broadcast" \in Ev(i) /\ hist[i].before = NoReq /\ hist[i].request = NoReq
         => req[i] = hist[i].assembled
    /\ "request.dispatch" \in Ev(i) =>
         req[i] = (IF hist[i].request # NoReq THEN hist[i].request
                   ELSE IF hist[i].before # NoReq THEN hist[i].before
                   ELSE hist[i].assembled)
    /\ ({"response.broadcast", "response.refused"} \cap Ev(i) # {}) =>
         /\ resp[i] = (IF hasValue(hist[i].response) THEN hist[i].response ELSE hist[i].raw)
         /\ checkResponse(resp[i]) <=> "response.broadcast" \in Ev(i)

C12_Witness ==
  \E i \in Subs :
    /\ pc[i] = "resolved"
    /\ req[i] = BeforeBody /\ hist[i].request = NoReq
    /\ hist[i].raw = R500 /\ resp[i] = O200
    /\ "response.broadcast" \in Ev(i)

RECURSIVE HasAbsentEntry(_)
\* some array of the structure has an absent entry
HasAbsentEntry(n) ==
  \/ isArray(n) /\ \E j \in DOMAIN n.items : ~hasValue(n.items[j]) \/ HasAbsentEntry(n.items[j])
  \/ isObject(n) /\ \E j \in DOMAIN n.vals : HasAbsentEntry(n.vals[j])

\* C15: cleaning is idempotent: for every nested structure of objects, arrays,
\* scalars and absent entries, every pass of deepFilterArrays after the first
\* returns what the first returned.
C15_CleanIdempotent ==
  \A k \in DOMAIN cleaned : cleaned[k] = cleaned[1]

C15_Witness ==
  /\ Len(cleaned) = MaxPasses
  /\ HasAbsentEntry(tree)
  /\ tree.kind = "array" /\ \E j \in DOMAIN tree.items : tree.items[j].kind = "array"
  /\ cleaned[1] # tree
  /\ ~HasAbsentEntry(cleaned[1])

\* the input named name, and the entries of the assembled object
Input(name) == inputs[CHOOSE j \in DOMAIN inputs : inputs[j].name = name]

OutData == Get(body.out, "data")

SideData(name) == Get(body.side[name], "data")

\* what a value merged under a key becomes in the body: an array loses its
\* absent entries, any other value is written as it is
Merged(v) == IF isArray(v) THEN Arr(SelectSeq(v.items, hasValue)) ELSE v

\* C13: the data set marked required (apply) is merged into the body of every
\* assembly, the optional ones (querystring, page) only when the call names
\* them; a value merged under the bucket and key of a field replaces the value
\* of the field: at key q the body holds the applied value when one is stored,
\* otherwise the query parameter when querystring is named and has one,
\* otherwise the value of the field.
C13_SideChannelMerge ==
  body.called =>
    /\ Has(OutData, "ref") <=> ("querystring" \in body.with /\ Has(SideData("querystring"), "ref"))
    /\ Has(OutData, "page") <=> ("page" \in body.with /\ Has(SideData("page"), "page"))
    /\ Has(OutData, "page") => Get(OutData, "page") = Get(SideData("page"), "page")
    /\ Get(OutData, "q") =
         (IF Has(SideData("apply"), "q") THEN Merged(Get(SideData("apply"), "q"))
          ELSE IF "querystring" \in body.with /\ Has(SideData("querystring"), "q")
            THEN Get(SideData("querystring"), "q")
          ELSE Str(Input("q").value))
    /\ Get(Get(body.out, "meta"), "size") = Str("big")

C13_Witness ==
  /\ body.called
  /\ body.with = {}
  /\ Input("q").value = "x"
  /\ Has(SideData("querystring"), "q")
  /\ Has(SideData("page"), "page")
  /\ Get(SideData("apply"), "q") = Str("s")
  /\ Get(OutData, "q") = Str("s")
  /\ ~Has(OutData, "page") /\ ~Has(OutData, "ref")

\* the entries of the array collected under tags
TagEntries == Get(OutData, "tags").items

\* the assembled value of a checkbox is the boolean checked state when its raw
\* value is one of markers, otherwise the declared value when it is checked
\* and nothing when it is not: a plain-named checkbox has no key, a checkbox
\* collected into an array has no entry
CheckboxAssembled(markers) ==
  body.called =>
    /\ LET el == Input("agree")
       IN IF el.value \in markers THEN Get(OutData, "agree") = Bool(el.checked)
          ELSE IF el.checked THEN Get(OutData, "agree") = Str(el.value)
          ELSE ~Has(OutData, "agree")
    /\ LET el == Input("tags[]")
       IN IF el.value \in markers THEN TagEntries = <<Bool(el.checked)>>
          ELSE IF el.checked THEN TagEntries = <<Str(el.value)>>
          ELSE TagEntries = <<>>

\* C14 as stated: a checkbox whose raw value is the generic affirmative marker
\* ("on") is assembled as its boolean checked state; a checkbox with any other
\* raw value is assembled as that value when checked and is omitted when
\* unchecked.
C14_CheckboxAsStated == CheckboxAssembled({"on"})

\* C14, amended: a checkbox whose raw value is the generic affirmative marker
\* or is empty is assembled as its boolean checked state; a checkbox with any
\* other raw value is assembled as that value when checked and is omitted
\* when unchecked.
C14_CheckboxValue == CheckboxAssembled({"on", ""})

C14_Witness ==
  /\ body.called
  /\ Input("agree").value = "" /\ ~Input("agree").checked
  /\ Get(OutData, "agree") = Bool(FALSE)
  /\ ~Input("tags[]").checked /\ TagEntries = <<>>

RECURSIVE HasAbsentValue(_)
\* some object of the structure has an absent value at a key
HasAbsentValue(n) ==
  \/ isArray(n) /\ \E j \in DOMAIN n.items : HasAbsentValue(n.items[j])
  \/ isObject(n) /\ \E j \in DOMAIN n.vals : ~hasValue(n.vals[j]) \/ HasAbsentValue(n.vals[j])

RECURSIVE HasEmptyArray(_)
\* the structure is an empty array or holds one
HasEmptyArray(n) ==
  \/ isArray(n) /\ (n.items = <<>> \/ \E j \in DOMAIN n.items : HasEmptyArray(n.items[j]))
  \/ isObject(n) /\ \E j \in DOMAIN n.vals : HasEmptyArray(n.vals[j])

\* C16 as stated: the assembled body holds no absent value and no empty array
\* at any depth.
C16_NoAbsentNoEmptyArray ==
  body.called =>
    /\ ~HasAbsentEntry(body.out)
    /\ ~HasAbsentValue(body.out)
    /\ ~HasEmptyArray(body.out)

\* C16, amended: no array of the assembled body has an absent entry, at any
\* depth, and no key of a bucket holds an absent value.
C16_NoAbsentEntry ==
  body.called =>
    /\ ~HasAbsentEntry(body.out)
    /\ \A b \in DOMAIN body.out.vals :
         \A k \in DOMAIN body.out.vals[b].vals : hasValue(body.out.vals[b].vals[k])

C16_Witness ==
  /\ body.called
  /\ Get(SideData("apply"), "q") = Arr(<<Absent, Str("s")>>)
  /\ Get(OutData, "q") = Arr(<<Str("s")>>)
  /\ Get(OutData, "list") = Arr(<<Str("x")>>)
  /\ Get(OutData, "tags") = Arr(<<>>)
  /\ ~Has(OutData, "since") /\ ~Has(OutData, "pick") /\ ~Has(OutData, "doc")

\* an attribute as a source of a parameter: absent when missing or blank
Attribute(s) == IF s = "" THEN Absent ELSE Str(s)

\* the static default of a parameter: 'ajax' for the transport kind, the url
\* of the call for the target, none for the method and the encoding
StaticDefault(key) ==
  CASE key = "type" -> Str("ajax")
    [] key = "action" -> params.opts.url
    [] OTHER -> Absent

\* the sources of a parameter, the highest precedence first
Ranked(key) ==
  <<params.opts.own[key], params.opts.property[key], Attribute(root.data[key]),
    Attribute(root.attr[key]), StaticDefault(key)>>

Resolved(key) ==
  CASE key = "type" -> params.type
    [] key = "method" -> params.method
    [] key = "action" -> params.url
    [] OTHER -> params.enctype

\* C17: each parameter of the Request stage (transport kind, method, target,
\* encoding) is the option of the call when it has a value, otherwise the
\* prefixed data attribute of the root when it is not blank, otherwise the
\* plain attribute when it is not blank, otherwise the static default: the
\* resolved value is the first source that supplies one, and no source below
\* it is used.
C17_ParameterPrecedence ==
  params.called =>
    \A key \in ParamKeys :
      \/ /\ \A j \in 1..5 : ~hasValue(Ranked(key)[j])
         /\ Resolved(key) = Absent
      \/ \E j \in 1..5 :
           /\ hasValue(Ranked(key)[j])
           /\ \A i \in 1..(j - 1) : ~hasValue(Ranked(key)[i])
           /\ Resolved(key) = Ranked(key)[j]

C17_Witness ==
  /\ params.called
  /\ params.opts.own["method"] = Str("o") /\ root.data["method"] = "d"
  /\ params.method = Str("o")
  /\ ~hasValue(params.opts.own["action"]) /\ ~hasValue(params.opts.property["action"])
  /\ root.data["action"] = "" /\ root.attr["action"] = "a" /\ params.opts.url = Str("u")
  /\ params.url = Str("a")
  /\ \A j \in 1..4 : ~hasValue(Ranked("type")[j])
  /\ params.type = Str("ajax")
  /\ ~hasValue(params.opts.own["enctype"]) /\ root.data["enctype"] = "d"
  /\ params.enctype = Str("d")

\* in the trace of submission i, every b comes after an a
Precedes(i, a, b) ==
  \A q \in DOMAIN trace[i] : trace[i][q] = b => \E p \in 1..(q - 1) : trace[i][p] = a

\* the delay or the request chain of submission i is pending
RequestPending(i) == pc[i] \in {"delay", "requestMw"}

\* C18 as stated: in the Request stage the delay elapses, then the request
\* chain runs, then the UI controls are toggled, then the request is
\* dispatched; the UI controls are idle while the delay and the request chain
\* are pending.
C18_ToggleAfterMiddleware ==
  \A i \in Subs :
    /\ Precedes(i, "request.delay", "request.mw")
    /\ Precedes(i, "request.mw", "request.toggle")
    /\ Precedes(i, "request.toggle", "request.dispatch")
    /\ RequestPending(i) => ui = IdleUI

\* C18, amended: in the Request stage the UI controls are toggled, then the
\* delay elapses, then the request chain runs, then the request is dispatched;
\* the UI controls are toggled while the delay and the request chain are
\* pending.
C18_ToggleBeforeDelay ==
  \A i \in Subs :
    /\ Precedes(i, "request.toggle", "request.delay")
    /\ Precedes(i, "request.delay", "request.mw")
    /\ Precedes(i, "request.mw", "request.dispatch")
    /\ RequestPending(i) => ui = ToggleUI(IdleUI)

C18_Witness ==
  \E i \in Subs :
    /\ pc[i] = "requestMw"
    /\ "request.mw" \in Ev(i) /\ "request.dispatch" \notin Ev(i)
    /\ ui = ToggleUI(IdleUI)

\* the positions of the trace of submission i that hold a side effect of one
\* of the five stages, and those at which the Error stage was entered
StageSteps(i) == {q \in DOMAIN trace[i] : StageOf(trace[i][q]) <= 5}

ErrorEntries(i) == {q \in DOMAIN trace[i] : trace[i][q] = "error.log"}

\* a stage of submission i has rejected
Rejected(i) == hasValue(err[i])

\* C19: once a stage of a submission has rejected, no step of a normal stage
\* is performed for it any more, and the Error stage is entered exactly once
\* (never a second time, and once the catch has run it has been entered); a
\* submission none of whose stages rejected never enters the Error stage.
C19_ErrorAbsorbing ==
  /\ [](\A i \in Subs :
          /\ Cardinality(ErrorEntries(i)) <= 1
          /\ pc[i] \in {"errorMw", "rejected"} => Rejected(i)
          /\ (Rejected(i) /\ pc[i] # "catch") => Cardinality(ErrorEntries(i)) = 1
          /\ ~Rejected(i) => ErrorEntries(i) = {} /\ pc[i] # "catch")
  /\ [][\A i \in Subs :
          (Rejected(i) /\ Rejected(i)') =>
            /\ StageSteps(i)' = StageSteps(i)
            /\ pc'[i] \in {"catch", "errorMw", "resolved", "rejected"}]_vars

C19_Witness ==
  \E i \in Subs :
    /\ pc[i] = "rejected"
    /\ err[i] = TransportFailure
    /\ "request.dispatch" \in Ev(i)
    /\ Cardinality(ErrorEntries(i)) = 1
    /\ Ev(i) \cap (ResponseEffects \cup AfterEffects) = {}

\* the transport of submission i has resolved and the submission has not settled
PastTransport(i) == pc[i] \in {"response", "responseMw", "after", "afterMw"}

\* the handle of submission i has been cancelled
Cancelled(i) == opts[i].abort \in aborted

\* submission i has resolved with its data, its response broadcast, the UI
\* controls reset and the success message shown
Completed(i) ==
  /\ pc[i] = "resolved" /\ settled[i] = Data
  /\ {"response.broadcast", "response.reset", "after.broadcast", "after.show"} \subseteq Ev(i)

\* C20: cancellation is cooperative: a step that cancels a controller leaves
\* the stage, the trace, the request, the response and the outcome of every
\* submission as they are; and a submission whose handle is cancelled once its
\* transport has resolved (the abort came later, or the transport ignored it)
\* still runs the Response and After stages to the end and resolves with its
\* data, its results written and the UI controls reset.
C20_CooperativeCancel ==
  /\ [][(aborted' # aborted \/ noopAbort' # noopAbort) =>
          /\ pc' = pc /\ trace' = trace /\ ui' = ui
          /\ req' = req /\ resp' = resp /\ err' = err /\ settled' = settled]_vars
  /\ \A i \in Subs : (PastTransport(i) /\ Cancelled(i)) ~> Completed(i)

C20_Witness ==
  \E i \in Subs :
    /\ Completed(i)
    /\ Cancelled(i)
    /\ ui["messageSuccess"]

\* submit() was called for submission i, and its promise has settled
Called(i) == pc[i] # "new"

Settled(i) == pc[i] \in {"resolved", "rejected"}

\* C21: every call of submit() settles its promise, and settles it once: a
\* submission that was made reaches the resolved or the rejected state,
\* whatever the other submissions do, and a promise that has settled keeps its
\* state and its value.
C21_SettlesOnce ==
  /\ \A i \in Subs : Called(i) ~> Settled(i)
  /\ [](\A i \in Subs : Settled(i) <=> settled[i] # NotSettled)
  /\ [][\A i \in Subs : Settled(i) => pc'[i] = pc[i] /\ settled'[i] = settled[i]]_vars

C21_Witness ==
  /\ \E i, j \in Subs : pc[i] = "resolved" /\ settled[i] = Data /\ pc[j] = "rejected"

\* C22: a submission during which the progress callback signalled upload-start
\* has signalled upload-stop when its promise settles, however it ends.
C22_UploadStopBeforeSettle ==
  \A i \in Subs :
    (started[i] /\ Settled(i)) =>
      Ev(i) \cap {"response.uploadStop", "error.uploadStop"} # {}

\* C23: when the promise of a submission has settled and no other submission
\* is in flight, the controls that the Request stage toggles (enable, disable,
\* show, hide) are idle, however the submission ended.
C23_IdleWhenSettled ==
  \A i \in Subs :
    (Settled(i) /\ \A j \in Subs \ {i} : ~InFlight(j)) =>
      \A k \in {"enable", "disable", "show", "hide"} : ui[k] = IdleUI[k]

====
